---- MODULE Spec2Model ----
(***************************************************************************)
(* The worker thread pool of src/threadpool.c over the mutex, condition    *)
(* variable and thread wrappers of src/platform.c.                         *)
(*                                                                         *)
(* One caller thread (main) runs thread_pool_init and thread_pool_shutdown;*)
(* NumProducers threads call thread_pool_add_task; each slot of            *)
(* pool->threads is a worker running worker_thread.  Every thread advances *)
(* one statement of the source at a time, so all interleavings of the      *)
(* shared accesses are explored.                                           *)
(***************************************************************************)
EXTENDS Integers, Sequences, FiniteSets, TLC

\* ---------------------------------------------------------------- bounds
NumThreads   == 2      \* largest num_threads passed to thread_pool_init
NumProducers == 2      \* threads calling thread_pool_add_task
MaxTasks     == 2      \* thread_pool_add_task calls over a whole run
MaxShutdowns == 2      \* thread_pool_shutdown calls over a whole run

\* ------------------------------------------------------------- constants
NULL == 0              \* the null task_node_t pointer
Wild == 0 - 1          \* an indeterminate (never written) pointer value

Workers   == 1..NumThreads
Producers == 1..NumProducers
Nodes     == 1..MaxTasks
NoOwner   == <<"none", 0>>
Main      == <<"main", 0>>
W(w)      == <<"worker", w>>
P(p)      == <<"producer", p>>

VARIABLES
    \* thread_pool_t (src/OLD/threadpool.h:41-47)
    threads,        \* pool->threads: "NULL" or "array"
    num_threads,    \* pool->num_threads
    handle,         \* pool->threads[i]: "wild" until a create succeeds
    keep_running,   \* pool->keep_running
    \* task_queue_t (src/OLD/threadpool.h:27-32)
    front, rear,    \* q->front, q->rear
    next,           \* node->next of every node
    lock,           \* owner of q->lock
    sync,           \* q->lock and q->cond: "uninit", "live" or "destroyed"
    waiters,        \* workers blocked inside platform_cond_wait
    \* the caller of init and shutdown
    mpc, mi, calls,
    \* worker_thread: position and the local variable task
    wpc, task,
    \* queue_push: position and the local variable node
    ppc, node,
    nextId,         \* number of thread_pool_add_task calls so far
    \* history
    pushOrder,      \* nodes in the order queue_push linked them
    popOrder,       \* nodes in the order queue_pop returned them
    execLog,        \* <<node, worker>> in the order task bodies were entered
    dropped,        \* submissions whose node allocation failed
    discarded,      \* nodes freed by queue_destroy
    atStop,         \* nodes linked in the queue when keep_running was cleared
    afterStop,      \* submissions begun after keep_running was cleared
    preShut,        \* submissions that had returned when shutdown was called
    overlap,        \* a queue_push critical section ran during queue_destroy
    lateLock        \* a queue_push took line 143 on the destroyed mutex

pool  == <<threads, num_threads, handle, keep_running>>
queue == <<front, rear, next, lock, sync, waiters>>
mainv == <<mpc, mi, calls>>
workv == <<wpc, task>>
prodv == <<ppc, node, nextId>>
hist  == <<pushOrder, popOrder, execLog, dropped, discarded, atStop, afterStop, preShut, overlap, lateLock>>
vars  == <<pool, queue, mainv, workv, prodv, hist>>

\* ---------------------------------------------------------------- helpers
Range(s) == {s[i] : i \in 1..Len(s)}

RECURSIVE Chain(_, _)
\* the nodes reachable from f through next, at most k of them
Chain(f, k) == IF f \notin Nodes \/ k = 0 THEN <<>>
               ELSE <<f>> \o Chain(next[f], k - 1)

\* the list that hangs off q->front
Linked == Chain(front, MaxTasks)

\* producer p is between lines 143 and 156 of queue_push
InPush(p) == ppc[p] \in {"p_link", "p_front", "p_rear", "p_signal", "p_unlock"}

\* the shutdown caller is between lines 121 and 129 of queue_destroy
InDestroy == mpc \in {"d_loop", "d_rear", "d_sync"}

\* ------------------------------------------------------------------- Init
\* thread_pool_t pool; declared and not yet initialised: the fields that
\* thread_pool_init may leave unwritten hold indeterminate values.
Init ==
    /\ threads \in {"NULL", "array"}
    /\ num_threads = 0
    /\ handle = [i \in Workers |-> "wild"]
    /\ keep_running \in {0, 1}
    /\ front \in {NULL, Wild}
    /\ rear \in {NULL, Wild}
    /\ next = [n \in Nodes |-> NULL]
    /\ lock = NoOwner
    /\ sync = "uninit"
    /\ waiters = {}
    /\ mpc = "init" /\ mi = 0 /\ calls = 0
    /\ wpc = [w \in Workers |-> "unstarted"]
    /\ task = [w \in Workers |-> NULL]
    /\ ppc = [p \in Producers |-> "idle"]
    /\ node = [p \in Producers |-> NULL]
    /\ nextId = 0
    /\ pushOrder = <<>> /\ popOrder = <<>> /\ execLog = <<>>
    /\ dropped = {} /\ discarded = {}
    /\ atStop = {} /\ afterStop = {} /\ preShut = {}
    /\ overlap = FALSE
    /\ lateLock = FALSE

\* --------------------------------------------------------- platform layer
\* platform_mutex_lock by thread t.  On a live mutex it returns once t owns
\* it.  On a destroyed mutex the call is undefined: it may still acquire, or
\* return an error that the wrapper drops, leaving t without ownership (a
\* call that never returns is the behaviour where t takes no further step).
platform_mutex_lock(t) ==
    \/ /\ sync # "uninit" /\ lock = NoOwner /\ lock' = t
    \/ /\ sync = "destroyed" /\ lock' = lock

\* platform_mutex_unlock by thread t
platform_mutex_unlock(t) ==
    lock' = IF lock = t THEN NoOwner ELSE lock

\* faulty variant: the signal reaches no waiter
platform_cond_signal_lost == UNCHANGED <<waiters, wpc>>

\* platform_cond_signal: wakes at most one blocked waiter
platform_cond_signal ==
    IF waiters = {} THEN UNCHANGED <<waiters, wpc>>
    ELSE \E w \in waiters :
            /\ waiters' = waiters \ {w}
            /\ wpc' = [wpc EXCEPT ![w] = "w_woken"]

\* faulty variant: the broadcast wakes a single waiter, as a signal does
platform_cond_broadcast_one == platform_cond_signal

\* platform_cond_broadcast: wakes every blocked waiter
platform_cond_broadcast ==
    /\ waiters' = {}
    /\ wpc' = [w \in Workers |-> IF w \in waiters THEN "w_woken" ELSE wpc[w]]

\* platform_thread_create(&pool->threads[i], worker_thread, pool)
platform_thread_create(i, ok) ==
    /\ handle' = [handle EXCEPT ![i] = IF ok THEN "valid" ELSE @]
    /\ wpc' = [wpc EXCEPT ![i] = IF ok THEN "w_top" ELSE @]

\* ------------------------------------------------------- thread_pool_init
\* lines 21-26: record num_threads, allocate the handle array
thread_pool_init_alloc ==
    /\ mpc = "init"
    /\ \E n \in 1..NumThreads, ok \in BOOLEAN :
          /\ num_threads' = n
          /\ threads' = IF ok THEN "array" ELSE "NULL"
          /\ mpc' = IF ok THEN "i_queue" ELSE "ready"
    /\ UNCHANGED <<handle, keep_running, queue, mi, calls, workv, prodv, hist>>

\* line 28 and queue_init, lines 110-115
queue_init ==
    /\ mpc = "i_queue"
    /\ front' = NULL /\ rear' = NULL
    /\ lock' = NoOwner /\ sync' = "live"
    /\ mpc' = "i_flag"
    /\ UNCHANGED <<pool, next, waiters, mi, calls, workv, prodv, hist>>

\* faulty variant: line 29 is missing and keep_running keeps its
\* indeterminate value
thread_pool_init_flag_unset ==
    /\ mpc = "i_flag"
    /\ mi' = 1
    /\ mpc' = "i_create"
    /\ UNCHANGED <<pool, queue, calls, workv, prodv, hist>>

\* line 29
thread_pool_init_flag ==
    /\ mpc = "i_flag"
    /\ keep_running' = 1
    /\ mi' = 1
    /\ mpc' = "i_create"
    /\ UNCHANGED <<threads, num_threads, handle, queue, calls, task, prodv, hist, wpc>>

\* lines 32-37: one iteration of the creation loop
thread_pool_init_create ==
    /\ mpc = "i_create"
    /\ \E ok \in BOOLEAN : platform_thread_create(mi, ok)
    /\ mi' = mi + 1
    /\ mpc' = IF mi + 1 > num_threads THEN "ready" ELSE "i_create"
    /\ UNCHANGED <<threads, num_threads, keep_running, queue, calls, task, prodv, hist>>

\* --------------------------------------------------- thread_pool_shutdown
\* submissions whose thread_pool_add_task call has returned
Returned == (1..nextId) \ {node[p] : p \in {q \in Producers : ppc[q] # "idle"}}

\* faulty variant: line 42 tests the pool pointer only
shutdown_no_threads_unchecked == FALSE

\* line 42: !pool->threads
shutdown_no_threads == threads = "NULL"

\* the call and line 42
thread_pool_shutdown_enter ==
    /\ mpc \in {"ready", "returned"}
    /\ calls < MaxShutdowns
    /\ calls' = calls + 1
    /\ mpc' = IF shutdown_no_threads THEN "returned" ELSE "s_flag"
    /\ preShut' = IF calls = 0 THEN Returned ELSE preShut
    /\ UNCHANGED <<pool, queue, mi, workv, prodv, pushOrder, popOrder, execLog,
                   dropped, discarded, atStop, afterStop, overlap, lateLock>>

\* line 45
thread_pool_shutdown_flag ==
    /\ mpc = "s_flag"
    /\ keep_running' = 0
    /\ atStop' = Range(Linked)
    /\ mpc' = "s_lock"
    /\ UNCHANGED <<threads, num_threads, handle, queue, mi, calls, workv, prodv,
                   pushOrder, popOrder, execLog, dropped, discarded, afterStop, preShut, overlap, lateLock>>

\* faulty variant: the broadcast is issued without taking the queue lock
thread_pool_shutdown_lock_skipped ==
    /\ mpc = "s_lock"
    /\ mpc' = "s_bcast"
    /\ UNCHANGED <<pool, queue, mi, calls, workv, prodv, hist>>

\* line 48
thread_pool_shutdown_lock ==
    /\ mpc = "s_lock"
    /\ platform_mutex_lock(Main)
    /\ mpc' = "s_bcast"
    /\ UNCHANGED <<pool, front, rear, next, sync, waiters, mi, calls, workv, prodv, hist>>

\* line 49
thread_pool_shutdown_broadcast ==
    /\ mpc = "s_bcast"
    /\ platform_cond_broadcast
    /\ mpc' = "s_unlock"
    /\ UNCHANGED <<pool, front, rear, next, lock, sync, mi, calls, task, prodv, hist>>

\* line 50
thread_pool_shutdown_unlock ==
    /\ mpc = "s_unlock"
    /\ platform_mutex_unlock(Main)
    /\ mi' = 1
    /\ mpc' = IF num_threads >= 1 THEN "s_join" ELSE "s_free"
    /\ UNCHANGED <<pool, front, rear, next, sync, waiters, calls, workv, prodv, hist>>

\* faulty variant: the join returns without waiting for the thread
platform_thread_join_nowait(i, returns) == TRUE

\* platform_thread_join(pool->threads[i]): returns once the thread behind a
\* valid handle has returned.  A handle that no create ever wrote is an
\* indeterminate value: the join may return at once or never return.
platform_thread_join(i, returns) ==
    IF handle[i] = "valid" THEN returns /\ wpc[i] = "exited" ELSE TRUE

\* faulty variant: the join loop stops one handle short
join_loop_done_short == mi + 1 >= num_threads

\* line 53: the loop ends when i < pool->num_threads fails after i++
join_loop_done == mi + 1 > num_threads

\* lines 53-55: one iteration of the join loop
thread_pool_shutdown_join ==
    /\ mpc = "s_join"
    /\ \E returns \in BOOLEAN :
          /\ platform_thread_join(mi, returns)
          /\ IF returns
             THEN /\ mi' = mi + 1
                  /\ mpc' = IF join_loop_done THEN "s_free" ELSE "s_join"
             ELSE /\ mi' = mi
                  /\ mpc' = "s_hung"
    /\ UNCHANGED <<pool, queue, calls, workv, prodv, hist>>

\* faulty variant: lines 59-60 are missing and the pool keeps the freed array
thread_pool_shutdown_free_dangling ==
    /\ mpc = "s_free"
    /\ mpc' = "d_loop"
    /\ overlap' = (overlap \/ \E p \in Producers : InPush(p))
    /\ UNCHANGED lateLock
    /\ UNCHANGED <<pool, queue, mi, calls, workv, prodv,
                   pushOrder, popOrder, execLog, dropped, discarded, atStop, afterStop, preShut>>

\* lines 58-60
thread_pool_shutdown_free ==
    /\ mpc = "s_free"
    /\ threads' = "NULL"
    /\ num_threads' = 0
    /\ mpc' = "d_loop"
    /\ overlap' = (overlap \/ \E p \in Producers : InPush(p))
    /\ UNCHANGED lateLock
    /\ UNCHANGED <<handle, keep_running, queue, mi, calls, workv, prodv,
                   pushOrder, popOrder, execLog, dropped, discarded, atStop, afterStop, preShut>>

\* queue_destroy, lines 121-125: one test of the loop condition and, when
\* q->front is set, one iteration
queue_destroy_loop ==
    /\ mpc = "d_loop"
    /\ IF front # NULL
       THEN /\ front' = next[front]
            /\ discarded' = discarded \cup {front}
            /\ mpc' = "d_loop"
       ELSE /\ mpc' = "d_rear"
            /\ UNCHANGED <<front, discarded>>
    /\ UNCHANGED <<pool, rear, next, lock, sync, waiters, mi, calls, workv, prodv,
                   pushOrder, popOrder, execLog, dropped, atStop, afterStop, preShut, overlap, lateLock>>

\* queue_destroy, line 126
queue_destroy_rear ==
    /\ mpc = "d_rear"
    /\ rear' = NULL
    /\ mpc' = "d_sync"
    /\ UNCHANGED <<pool, front, next, lock, sync, waiters, mi, calls, workv, prodv, hist>>

\* queue_destroy, lines 128-129; thread_pool_shutdown returns
queue_destroy_sync ==
    /\ mpc = "d_sync"
    /\ sync' = "destroyed"
    /\ mpc' = "returned"
    /\ UNCHANGED <<pool, front, rear, next, lock, waiters, mi, calls, workv, prodv, hist>>

\* ---------------------------------------------------------- worker_thread
\* line 80: while (pool->keep_running)
worker_loop_cond == keep_running # 0

\* line 84: while (pool->queue.front == NULL && pool->keep_running)
worker_wait_cond == front = NULL /\ keep_running # 0

\* faulty variant: the test of line 87 never succeeds
worker_stop_cond_never == FALSE

\* line 87: if (!pool->keep_running)
worker_stop_cond == keep_running = 0

\* line 80
worker_top(w) ==
    /\ wpc[w] = "w_top"
    /\ wpc' = [wpc EXCEPT ![w] = IF worker_loop_cond THEN "w_lock" ELSE "exited"]
    /\ UNCHANGED <<pool, queue, mainv, task, prodv, hist>>

\* line 81
worker_lock(w) ==
    /\ wpc[w] = "w_lock"
    /\ platform_mutex_lock(W(w))
    /\ wpc' = [wpc EXCEPT ![w] = "w_check"]
    /\ UNCHANGED <<pool, front, rear, next, sync, waiters, mainv, task, prodv, hist>>

\* line 84
worker_check(w) ==
    /\ wpc[w] = "w_check"
    /\ wpc' = [wpc EXCEPT ![w] = IF worker_wait_cond THEN "w_wait" ELSE "w_pop"]
    /\ UNCHANGED <<pool, queue, mainv, task, prodv, hist>>

\* line 85, platform_cond_wait entry: releases the mutex and blocks, atomically
worker_wait(w) ==
    /\ wpc[w] = "w_wait"
    /\ platform_mutex_unlock(W(w))
    /\ waiters' = waiters \cup {w}
    /\ wpc' = [wpc EXCEPT ![w] = "w_waiting"]
    /\ UNCHANGED <<pool, front, rear, next, sync, mainv, task, prodv, hist>>

\* platform_cond_wait may end without a signal (spurious wakeup, which
\* pthread_cond_wait and SleepConditionVariableCS both allow)
worker_spurious(w) ==
    /\ w \in waiters
    /\ waiters' = waiters \ {w}
    /\ wpc' = [wpc EXCEPT ![w] = "w_woken"]
    /\ UNCHANGED <<pool, front, rear, next, lock, sync, mainv, task, prodv, hist>>

\* line 85, platform_cond_wait return: the woken worker reacquires the mutex
worker_reacquire(w) ==
    /\ wpc[w] = "w_woken"
    /\ platform_mutex_lock(W(w))
    /\ wpc' = [wpc EXCEPT ![w] = "w_recheck"]
    /\ UNCHANGED <<pool, front, rear, next, sync, waiters, mainv, task, prodv, hist>>

\* line 87
worker_recheck(w) ==
    /\ wpc[w] = "w_recheck"
    /\ wpc' = [wpc EXCEPT ![w] = IF worker_stop_cond THEN "w_exit" ELSE "w_check"]
    /\ UNCHANGED <<pool, queue, mainv, task, prodv, hist>>

\* faulty variant: line 88 is skipped and the worker returns owning the lock
worker_exit_locked(w) ==
    /\ wpc[w] = "w_exit"
    /\ wpc' = [wpc EXCEPT ![w] = "exited"]
    /\ UNCHANGED <<pool, queue, mainv, task, prodv, hist>>

\* lines 88-89
worker_exit(w) ==
    /\ wpc[w] = "w_exit"
    /\ platform_mutex_unlock(W(w))
    /\ wpc' = [wpc EXCEPT ![w] = "exited"]
    /\ UNCHANGED <<pool, front, rear, next, sync, waiters, mainv, task, prodv, hist>>

\* faulty variant: queue_pop leaves q->front on the node it returns
queue_pop_next_stuck == front

\* queue_pop line 166: the value stored into q->front
queue_pop_next == next[front]

\* faulty variant: queue_pop never clears q->rear
queue_pop_rear_kept == rear

\* queue_pop line 167-169: the value left in q->rear
queue_pop_rear == IF front = NULL THEN NULL ELSE rear

\* line 94 and queue_pop lines 161-166
queue_pop(w) ==
    /\ wpc[w] = "w_pop"
    /\ IF front = NULL
       THEN /\ task' = [task EXCEPT ![w] = NULL]
            /\ wpc' = [wpc EXCEPT ![w] = "w_unlock"]
            /\ UNCHANGED <<front, popOrder>>
       ELSE /\ task' = [task EXCEPT ![w] = front]
            /\ front' = queue_pop_next
            /\ popOrder' = Append(popOrder, front)
            /\ wpc' = [wpc EXCEPT ![w] = "w_pop2"]
    /\ UNCHANGED <<pool, rear, next, lock, sync, waiters, mainv, prodv,
                   pushOrder, execLog, dropped, discarded, atStop, afterStop, preShut, overlap, lateLock>>

\* queue_pop lines 167-170
queue_pop_last(w) ==
    /\ wpc[w] = "w_pop2"
    /\ rear' = queue_pop_rear
    /\ wpc' = [wpc EXCEPT ![w] = "w_unlock"]
    /\ UNCHANGED <<pool, front, next, lock, sync, waiters, mainv, task, prodv, hist>>

\* faulty variant: line 95 is skipped and the lock is kept across the task body
worker_unlock_kept(w) ==
    /\ wpc[w] = "w_unlock"
    /\ wpc' = [wpc EXCEPT ![w] = "w_run"]
    /\ UNCHANGED <<pool, queue, mainv, task, prodv, hist>>

\* line 95
worker_unlock(w) ==
    /\ wpc[w] = "w_unlock"
    /\ platform_mutex_unlock(W(w))
    /\ wpc' = [wpc EXCEPT ![w] = "w_run"]
    /\ UNCHANGED <<pool, front, rear, next, sync, waiters, mainv, task, prodv, hist>>

\* lines 98-99: the task body is entered
worker_run(w) ==
    /\ wpc[w] = "w_run"
    /\ IF task[w] # NULL
       THEN /\ execLog' = Append(execLog, <<task[w], w>>)
            /\ wpc' = [wpc EXCEPT ![w] = "w_body"]
       ELSE /\ wpc' = [wpc EXCEPT ![w] = "w_top"]
            /\ UNCHANGED execLog
    /\ UNCHANGED <<pool, queue, mainv, task, prodv, pushOrder, popOrder,
                   dropped, discarded, atStop, afterStop, preShut, overlap, lateLock>>

\* lines 99-100: the task body returns and the node is freed
worker_return(w) ==
    /\ wpc[w] = "w_body"
    /\ task' = [task EXCEPT ![w] = NULL]
    /\ wpc' = [wpc EXCEPT ![w] = "w_top"]
    /\ UNCHANGED <<pool, queue, mainv, prodv, hist>>

\* ------------------------------------- thread_pool_add_task and queue_push
\* the pool is handed to producers once thread_pool_init has returned with
\* the queue initialised
PoolPublished ==
    /\ mpc \notin {"init", "i_queue", "i_flag", "i_create"}
    /\ sync # "uninit"

\* faulty variant: the failed allocation does not return, and the push goes on
queue_push_alloc_noreturn(p) ==
    /\ ppc[p] = "idle"
    /\ PoolPublished
    /\ nextId < MaxTasks
    /\ nextId' = nextId + 1
    /\ afterStop' = IF keep_running = 0
                    THEN afterStop \cup {nextId + 1} ELSE afterStop
    /\ node' = [node EXCEPT ![p] = nextId + 1]
    /\ next' = [next EXCEPT ![nextId + 1] = NULL]
    /\ ppc' = [ppc EXCEPT ![p] = "p_lock"]
    /\ \E ok \in BOOLEAN :
          dropped' = IF ok THEN dropped ELSE dropped \cup {nextId + 1}
    /\ UNCHANGED <<pool, front, rear, lock, sync, waiters, mainv, workv,
                   pushOrder, popOrder, execLog, discarded, atStop, preShut, overlap, lateLock>>

\* lines 66-69 and 134-141: the call and the node allocation
queue_push_alloc(p) ==
    /\ ppc[p] = "idle"
    /\ PoolPublished
    /\ nextId < MaxTasks
    /\ nextId' = nextId + 1
    /\ afterStop' = IF keep_running = 0
                    THEN afterStop \cup {nextId + 1} ELSE afterStop
    /\ \E ok \in BOOLEAN :
          IF ok
          THEN /\ node' = [node EXCEPT ![p] = nextId + 1]
               /\ next' = [next EXCEPT ![nextId + 1] = NULL]
               /\ ppc' = [ppc EXCEPT ![p] = "p_lock"]
               /\ UNCHANGED dropped
          ELSE /\ dropped' = dropped \cup {nextId + 1}
               /\ UNCHANGED <<node, next, ppc>>
    /\ UNCHANGED <<pool, front, rear, lock, sync, waiters, mainv, workv,
                   pushOrder, popOrder, execLog, discarded, atStop, preShut, overlap, lateLock>>

\* line 143
queue_push_lock(p) ==
    /\ ppc[p] = "p_lock"
    /\ platform_mutex_lock(P(p))
    /\ ppc' = [ppc EXCEPT ![p] = "p_link"]
    /\ overlap' = (overlap \/ InDestroy)
    /\ lateLock' = (lateLock \/ sync = "destroyed")
    /\ UNCHANGED <<pool, front, rear, next, sync, waiters, mainv, workv, node, nextId,
                   pushOrder, popOrder, execLog, dropped, discarded, atStop, afterStop, preShut>>

\* faulty variant: the node is linked in at the front of a non-empty queue
queue_push_link_lifo(p) ==
    /\ ppc[p] = "p_link"
    /\ IF rear = NULL
       THEN /\ rear' = node[p]
            /\ ppc' = [ppc EXCEPT ![p] = "p_front"]
            /\ UNCHANGED <<front, next>>
       ELSE /\ next' = [next EXCEPT ![node[p]] = front]
            /\ front' = node[p]
            /\ ppc' = [ppc EXCEPT ![p] = "p_signal"]
            /\ UNCHANGED rear
    /\ pushOrder' = Append(pushOrder, node[p])
    /\ UNCHANGED <<pool, lock, sync, waiters, mainv, workv, node, nextId,
                   popOrder, execLog, dropped, discarded, atStop, afterStop, preShut, overlap, lateLock>>

\* lines 145-151, first store.  In q->front = q->rear = node the two stores
\* are unsequenced, so either may come first.
queue_push_link(p) ==
    /\ ppc[p] = "p_link"
    /\ IF rear = NULL
       THEN \/ /\ rear' = node[p]
               /\ ppc' = [ppc EXCEPT ![p] = "p_front"]
               /\ UNCHANGED <<front, next>>
            \/ /\ front' = node[p]
               /\ ppc' = [ppc EXCEPT ![p] = "p_rear"]
               /\ UNCHANGED <<rear, next>>
       ELSE /\ next' = [next EXCEPT ![rear] = node[p]]
            /\ ppc' = [ppc EXCEPT ![p] = "p_rear"]
            /\ UNCHANGED <<front, rear>>
    /\ pushOrder' = Append(pushOrder, node[p])
    /\ UNCHANGED <<pool, lock, sync, waiters, mainv, workv, node, nextId,
                   popOrder, execLog, dropped, discarded, atStop, afterStop, preShut, overlap, lateLock>>

\* line 147, the store into q->front when q->rear was stored first
queue_push_front(p) ==
    /\ ppc[p] = "p_front"
    /\ front' = node[p]
    /\ ppc' = [ppc EXCEPT ![p] = "p_signal"]
    /\ UNCHANGED <<pool, rear, next, lock, sync, waiters, mainv, workv, node, nextId, hist>>

\* lines 147 and 150, the store into q->rear
queue_push_rear(p) ==
    /\ ppc[p] = "p_rear"
    /\ rear' = node[p]
    /\ ppc' = [ppc EXCEPT ![p] = "p_signal"]
    /\ UNCHANGED <<pool, front, next, lock, sync, waiters, mainv, workv, node, nextId, hist>>

\* line 154
queue_push_signal(p) ==
    /\ ppc[p] = "p_signal"
    /\ platform_cond_signal
    /\ ppc' = [ppc EXCEPT ![p] = "p_unlock"]
    /\ UNCHANGED <<pool, front, rear, next, lock, sync, mainv, task, node, nextId, hist>>

\* line 156; queue_push and thread_pool_add_task return
queue_push_unlock(p) ==
    /\ ppc[p] = "p_unlock"
    /\ platform_mutex_unlock(P(p))
    /\ ppc' = [ppc EXCEPT ![p] = "idle"]
    /\ node' = [node EXCEPT ![p] = NULL]
    /\ UNCHANGED <<pool, front, rear, next, sync, waiters, mainv, workv, nextId, hist>>

\* ------------------------------------------------------------ the program
thread_pool_init ==
    \/ thread_pool_init_alloc
    \/ queue_init
    \/ thread_pool_init_flag
    \/ thread_pool_init_create

thread_pool_shutdown ==
    \/ thread_pool_shutdown_enter
    \/ thread_pool_shutdown_flag
    \/ thread_pool_shutdown_lock
    \/ thread_pool_shutdown_broadcast
    \/ thread_pool_shutdown_unlock
    \/ thread_pool_shutdown_join
    \/ thread_pool_shutdown_free
    \/ queue_destroy_loop
    \/ queue_destroy_rear
    \/ queue_destroy_sync

worker_thread(w) ==
    \/ worker_top(w)
    \/ worker_lock(w)
    \/ worker_check(w)
    \/ worker_wait(w)
    \/ worker_reacquire(w)
    \/ worker_recheck(w)
    \/ worker_exit(w)
    \/ queue_pop(w)
    \/ queue_pop_last(w)
    \/ worker_unlock(w)
    \/ worker_run(w)
    \/ worker_return(w)

thread_pool_add_task(p) ==
    \/ queue_push_alloc(p)
    \/ queue_push_lock(p)
    \/ queue_push_link(p)
    \/ queue_push_front(p)
    \/ queue_push_rear(p)
    \/ queue_push_signal(p)
    \/ queue_push_unlock(p)

Next ==
    \/ thread_pool_init
    \/ thread_pool_shutdown
    \/ \E w \in Workers : worker_thread(w)
    \/ \E w \in Workers : worker_spurious(w)
    \/ \E p \in Producers : thread_pool_add_task(p)

Spec == Init /\ [][Next]_vars

\* the statements of thread_pool_shutdown after the call itself
thread_pool_shutdown_body ==
    \/ thread_pool_shutdown_flag
    \/ thread_pool_shutdown_lock
    \/ thread_pool_shutdown_broadcast
    \/ thread_pool_shutdown_unlock
    \/ thread_pool_shutdown_join
    \/ thread_pool_shutdown_free
    \/ queue_destroy_loop
    \/ queue_destroy_rear
    \/ queue_destroy_sync

\* the statements of queue_push after the node allocation
queue_push_body(p) ==
    \/ queue_push_lock(p)
    \/ queue_push_link(p)
    \/ queue_push_front(p)
    \/ queue_push_rear(p)
    \/ queue_push_signal(p)
    \/ queue_push_unlock(p)

\* Fair scheduling: a thread that can take its next statement eventually
\* takes it, and every task body returns.  Nothing obliges a caller to
\* submit or to shut down, nor a wait to end spuriously.
LiveSpec ==
    /\ Init /\ [][Next]_vars
    /\ WF_vars(thread_pool_init)
    /\ WF_vars(thread_pool_shutdown_body)
    /\ \A w \in Workers : WF_vars(worker_thread(w))
    /\ \A p \in Producers : WF_vars(queue_push_body(p))

\* the statements of worker_thread other than the return of a task body
worker_thread_steps(w) ==
    \/ worker_top(w)
    \/ worker_lock(w)
    \/ worker_check(w)
    \/ worker_wait(w)
    \/ worker_reacquire(w)
    \/ worker_recheck(w)
    \/ worker_exit(w)
    \/ queue_pop(w)
    \/ queue_pop_last(w)
    \/ worker_unlock(w)
    \/ worker_run(w)

\* Fair scheduling in which a task body need not return: every thread that
\* can take its next statement eventually takes it, and a producer that
\* finds the queue mutex free again and again eventually acquires it.
BusySpec ==
    /\ Init /\ [][Next]_vars
    /\ WF_vars(thread_pool_init)
    /\ WF_vars(thread_pool_shutdown_body)
    /\ \A w \in Workers : WF_vars(worker_thread_steps(w))
    /\ \A p \in Producers : WF_vars(queue_push_body(p)) /\ SF_vars(queue_push_lock(p))

\* ------------------------------------------------------------ observations
\* how often the body of node n was entered
ExecCount(n) == Cardinality({i \in 1..Len(execLog) : execLog[i][1] = n})

\* how often queue_pop returned node n
PopCount(n) == Cardinality({i \in 1..Len(popOrder) : popOrder[i] = n})

\* position of node n in the push order (0 when it was never linked)
PushIndex(n) ==
    IF n \in Range(pushOrder)
    THEN CHOOSE i \in 1..Len(pushOrder) : pushOrder[i] = n
    ELSE 0

\* worker w holds a dequeued node whose body it has not entered yet
Pending(w) == task[w] # NULL /\ wpc[w] \in {"w_pop2", "w_unlock", "w_run"}

\* thread_pool_shutdown ran past line 42 and has returned
ShutdownReturned == mpc = "returned" /\ sync = "destroyed"

\* ----------------------------------------------------------------- claims

\* C1: at-most-once execution.  No node is returned by queue_pop twice, no
\* two workers hold the same node, no body is entered twice, and every
\* dequeued node has had its body entered exactly once unless the one worker
\* holding it is still on its way to the call.
C1_AtMostOnce ==
    /\ \A n \in Nodes :
          /\ PopCount(n) <= 1
          /\ ExecCount(n) <= 1
          /\ ExecCount(n) = 1 => PopCount(n) = 1
          /\ PopCount(n) = 1 =>
                \/ ExecCount(n) = 1
                \/ \E w \in Workers : task[w] = n /\ Pending(w)
    /\ \A w1, w2 \in Workers :
          (w1 # w2 /\ task[w1] # NULL) => task[w1] # task[w2]

\* two submissions were dequeued and run by two different workers
C1_Witness ==
    /\ Len(execLog) = 2
    /\ execLog[1][2] # execLog[2][2]
    /\ execLog[1][1] # execLog[2][1]

\* C2: FIFO dispatch.  The nodes queue_pop has returned are, in order, the
\* first nodes queue_push linked; and two bodies run by the same worker are
\* entered in the order their nodes were pushed.
C2_Fifo ==
    /\ Len(popOrder) <= Len(pushOrder)
    /\ \A i \in 1..Len(popOrder) : popOrder[i] = pushOrder[i]
    /\ \A i, j \in 1..Len(execLog) :
          (i < j /\ execLog[i][2] = execLog[j][2])
             => PushIndex(execLog[i][1]) < PushIndex(execLog[j][1])

\* one worker dequeued and ran two submissions, in the order they were pushed
C2_Witness ==
    /\ Len(execLog) = 2
    /\ execLog[1][2] = execLog[2][2]
    /\ execLog[1][1] # execLog[2][1]
    /\ popOrder = pushOrder

\* C3: no post-shutdown execution.  Once thread_pool_shutdown has returned,
\* no step enters a task body.
C3_NoExecAfterShutdown ==
    [][ShutdownReturned => execLog' = execLog]_vars

\* shutdown has returned after discarding a queued node, and a node
\* submitted afterwards sits in the queue
C3_Witness ==
    /\ ShutdownReturned
    /\ discarded # {}
    /\ front \in Nodes
    /\ front \notin discarded

\* C4 as stated: a submission begun after keep_running was cleared is never
\* executed.
C4_AfterStopNeverRuns ==
    \A n \in afterStop : ExecCount(n) = 0

\* every slot of pool->threads holds the handle of a started worker
AllStarted == \A i \in 1..num_threads : handle[i] = "valid"

\* C5: shutdown terminates.  On a pool whose workers all started, under fair
\* scheduling, a thread_pool_shutdown that has passed line 42 returns.
C5_ShutdownTerminates ==
    (mpc = "s_flag" /\ AllStarted) ~> ShutdownReturned

\* shutdown of a full pool of NumThreads workers has returned with a node
\* that was still queued
C5_Witness ==
    /\ ShutdownReturned
    /\ \A i \in Workers : handle[i] = "valid"
    /\ discarded # {}
    /\ execLog # <<>>

\* submissions whose node was allocated and that had returned before
\* thread_pool_shutdown was called
SubmittedBefore == preShut \ dropped

\* C6 as stated: when shutdown has returned, every task submitted before it
\* was called has had its body entered exactly once.
C6_AllRunBeforeReturn ==
    ShutdownReturned => \A n \in SubmittedBefore : ExecCount(n) = 1

\* C6 amended: when shutdown has returned, every task submitted before it
\* was called has either been dequeued and had its body entered exactly
\* once and finished, or was never dequeued and has been freed by
\* queue_destroy without its body being entered.
C6_RunOnceOrDiscarded ==
    ShutdownReturned =>
        \A n \in SubmittedBefore :
            \/ /\ PopCount(n) = 1 /\ ExecCount(n) = 1
               /\ n \notin discarded
               /\ \A w \in Workers : task[w] # n
            \/ /\ PopCount(n) = 0 /\ ExecCount(n) = 0
               /\ n \in discarded

\* shutdown has returned; of two tasks submitted before the call one was
\* run and the other discarded
C6_Witness ==
    /\ ShutdownReturned
    /\ \E n, m \in SubmittedBefore :
          /\ ExecCount(n) = 1
          /\ m \in discarded

\* C7: shutdown waits for in-flight work.  When shutdown has returned no
\* worker holds a dequeued node, and every node queue_pop ever returned has
\* had its body entered and left.
C7_WaitsForInFlight ==
    ShutdownReturned =>
        /\ \A w \in Workers : task[w] = NULL /\ wpc[w] \in {"unstarted", "exited"}
        /\ \A n \in Range(popOrder) : ExecCount(n) = 1

\* shutdown has returned after a task that was dequeued while shutdown was
\* already under way ran to completion
C7_Witness ==
    /\ ShutdownReturned
    /\ \E n \in afterStop : ExecCount(n) = 1

\* C8 as stated: a node linked in the queue when keep_running was cleared is
\* never executed.
C8_QueuedAtStopNeverRuns ==
    \A n \in atStop : ExecCount(n) = 0

\* some thread is between the first and the last statement of a queue
\* operation: queue_init, the locked part of queue_push, queue_pop or
\* queue_destroy
InQueueOp ==
    \/ mpc \in {"init", "i_queue"}
    \/ InDestroy
    \/ \E w \in Workers : wpc[w] \in {"w_pop", "w_pop2"}
    \/ \E p \in Producers : InPush(p)

\* C9 as stated: once queue_init has run, whenever no thread is inside a
\* queue operation and the lock is free, q->front is NULL exactly when
\* q->rear is NULL.
C9_QueueInvariant ==
    (sync # "uninit" /\ lock = NoOwner /\ ~InQueueOp) =>
        (front = NULL <=> rear = NULL)

\* C9 amended: the same, for every run in which no queue_push critical
\* section has overlapped queue_destroy.
C9_QueueInvariantNoOverlap ==
    (sync # "uninit" /\ lock = NoOwner /\ ~InQueueOp /\ ~overlap) =>
        (front = NULL <=> rear = NULL)

\* the last node has been removed by queue_pop and the queue is at rest
C9_Witness ==
    /\ sync = "live" /\ lock = NoOwner /\ ~InQueueOp /\ ~overlap
    /\ popOrder # <<>>
    /\ Len(popOrder) = Len(pushOrder)
    /\ front = NULL /\ rear = NULL

\* C10 as stated: shutdown joins only handles of threads that started, and
\* does not hang.
C10_JoinsOnlyStarted ==
    /\ mpc = "s_join" => handle[mi] = "valid"
    /\ mpc # "s_hung"

\* at least one worker thread was started
SomeStarted == \E i \in Workers : handle[i] = "valid"

\* C11: task progress.  Under fair scheduling, on a pool with at least one
\* live worker, every node queue_push has linked has its body entered,
\* unless thread_pool_shutdown is called.
C11_TaskProgress ==
    \A n \in Nodes :
        (n \in Range(pushOrder) /\ SomeStarted) ~> (ExecCount(n) = 1 \/ calls > 0)

\* a pool asked for two workers runs with one, which has executed a task
\* without shutdown having been called
C11_Witness ==
    /\ calls = 0
    /\ mpc = "ready"
    /\ num_threads = 2
    /\ \E i, j \in Workers : handle[i] = "valid" /\ handle[j] = "wild"
    /\ execLog # <<>>

\* C12: node allocation failure.  The step in which the allocation fails
\* leaves q->front, q->rear, the links, the lock and the waiters as they
\* were and keeps the producer out of the rest of queue_push; a dropped
\* submission is never linked and its body is never entered.
C12_AllocFailureDrops ==
    [][ /\ dropped' # dropped =>
             UNCHANGED <<front, rear, next, lock, sync, waiters, wpc, ppc, node>>
        /\ \A n \in dropped' :
             /\ \A i \in 1..Len(pushOrder') : pushOrder'[i] # n
             /\ \A i \in 1..Len(execLog') : execLog'[i][1] # n
      ]_vars

\* a submission was dropped and a later one has been executed
C12_Witness ==
    \E d \in dropped : \E n \in Nodes : n > d /\ ExecCount(n) = 1

\* thread_pool_init has returned at line 25, the handle array unallocated
AllocFailed == sync = "uninit" /\ mpc \in {"ready", "returned"}

\* C13: thread-array allocation failure.  After the failed allocation
\* pool->threads is NULL and no worker exists; every later step, a
\* thread_pool_shutdown call included, returns at line 42 and leaves the
\* running flag, the queue, its lock and waiters and the workers untouched.
C13_ArrayAllocFailure ==
    [][ AllocFailed =>
           /\ threads = "NULL"
           /\ \A w \in Workers : wpc[w] = "unstarted" /\ handle[w] = "wild"
           /\ mpc' = "returned"
           /\ UNCHANGED <<pool, queue, workv, mi, discarded>>
      ]_vars

\* a shutdown call on the pool whose array allocation failed has returned
C13_Witness ==
    /\ AllocFailed
    /\ mpc = "returned"
    /\ calls >= 1

\* C14: submission never blocks on workers.  Under fair scheduling, even if
\* task bodies never return, a thread_pool_add_task call on a pool that is
\* not being shut down returns.
C14_SubmitReturns ==
    \A p \in Producers :
        (ppc[p] # "idle" /\ calls = 0) ~> (ppc[p] = "idle" \/ calls > 0)

\* every live worker is inside a task body, a further node is queued behind
\* it and the submissions have all returned
C14_Witness ==
    /\ calls = 0
    /\ SomeStarted
    /\ \A w \in Workers : wpc[w] \in {"unstarted", "w_body"}
    /\ front # NULL
    /\ \A p \in Producers : ppc[p] = "idle"

\* C15: a worker never holds the queue lock while a task body is running.
\* A worker between line 95 and the return of task->func does not own the
\* queue mutex, and a worker that has returned from worker_thread does not
\* own it either.
C15_NoLockWhileRunning ==
    \A w \in Workers :
        wpc[w] \in {"w_run", "w_body", "exited"} => lock # W(w)

\* one worker is inside a task body while a producer owns the mutex and the
\* other worker has left through lines 87-89
C15_Witness ==
    \E w, v \in Workers :
        /\ wpc[w] = "w_body" /\ wpc[v] = "exited"
        /\ \E p \in Producers : lock = P(p)
        /\ popOrder # <<>> /\ calls = 1 /\ mpc = "s_join"

\* thread_pool_shutdown has completed line 49
PastBroadcast ==
    \/ mpc \in {"s_unlock", "s_join", "s_hung", "s_free", "d_loop", "d_rear", "d_sync"}
    \/ ShutdownReturned

\* C16: no lost wakeup at shutdown.  Once shutdown has completed its
\* broadcast no worker is blocked in platform_cond_wait or about to block in
\* it, and every worker that is waiting when shutdown is about to clear the
\* flag is woken and exits.
C16_NoLostWakeup ==
    /\ [](PastBroadcast =>
            /\ waiters = {}
            /\ \A w \in Workers : wpc[w] \notin {"w_wait", "w_waiting"})
    /\ \A w \in Workers :
          (mpc = "s_flag" /\ w \in waiters) ~> (wpc[w] = "exited")

\* the broadcast has just woken every worker of a full pool
C16_Witness ==
    /\ mpc = "s_unlock"
    /\ lock = Main
    /\ \A w \in Workers : wpc[w] = "w_woken" /\ handle[w] = "valid"

\* C17: wake re-check.  A worker that has returned from the condition wait
\* and finds the flag false goes to lines 88-89, where it releases the lock it
\* owns and returns, and neither step dequeues or starts a task, whatever the
\* queue holds.  A worker that finds the flag true goes back to line 84, and
\* one that finds the queue empty and the flag true there blocks again in
\* platform_cond_wait; none of these steps dequeues or starts a task.
C17_WakeRecheck ==
    [][ \A w \in Workers :
          /\ (wpc[w] = "w_recheck" /\ wpc'[w] # "w_recheck") =>
                /\ wpc'[w] = IF keep_running = 0 THEN "w_exit" ELSE "w_check"
                /\ UNCHANGED <<front, rear, next, lock, task, popOrder, execLog>>
          /\ (wpc[w] = "w_exit" /\ wpc'[w] # "w_exit") =>
                /\ wpc'[w] = "exited"
                /\ lock = W(w) /\ lock' = NoOwner
                /\ UNCHANGED <<front, rear, next, task, popOrder, execLog>>
          /\ (wpc[w] = "w_check" /\ wpc'[w] # "w_check"
                                /\ front = NULL /\ keep_running # 0) =>
                /\ wpc'[w] = "w_wait"
                /\ UNCHANGED <<front, rear, next, lock, task, popOrder, execLog>>
          /\ (wpc[w] = "w_wait" /\ wpc'[w] # "w_wait") =>
                /\ wpc'[w] = "w_waiting" /\ w \in waiters'
                /\ UNCHANGED <<front, rear, next, task, popOrder, execLog>> ]_vars

\* a woken worker has found the flag false while a node is queued
C17_Witness ==
    \E w \in Workers :
        /\ wpc[w] = "w_exit" /\ keep_running = 0
        /\ front # NULL /\ front \in Nodes
        /\ lock = W(w)

\* C18: init ordering.  While thread_pool_init is creating workers the queue
\* is empty with its mutex and condition variable initialised and the flag
\* is true; a worker exists only once the queue and the flag have been
\* written; and a worker has returned only if a thread_pool_shutdown call
\* has cleared the flag.
C18_InitOrdering ==
    /\ mpc = "i_create" =>
          front = NULL /\ rear = NULL /\ sync = "live" /\ keep_running = 1
    /\ (\E w \in Workers : wpc[w] # "unstarted") =>
          /\ mpc \notin {"init", "i_queue", "i_flag"}
          /\ sync # "uninit" /\ front # Wild /\ rear # Wild
    /\ \A w \in Workers :
          wpc[w] = "exited" =>
              calls >= 1 /\ keep_running = 0 /\ mpc \notin {"i_create", "ready", "s_flag"}

\* the first worker has already read the queue and the flag and blocked
\* while thread_pool_init is still creating the second
C18_Witness ==
    /\ mpc = "i_create" /\ mi = 2 /\ num_threads = 2
    /\ wpc[1] = "w_waiting" /\ wpc[2] = "unstarted"

\* C19: shutdown ordering.  From the release of the thread array at lines
\* 58-60 on, through queue_destroy and after it, every worker that was
\* started has returned from worker_thread: no worker that has not exited
\* coexists with a queue that is being or has been destroyed.
C19_ShutdownOrdering ==
    (mpc = "s_free" \/ InDestroy \/ ShutdownReturned) =>
        \A w \in Workers :
            /\ handle[w] = "valid" => wpc[w] = "exited"
            /\ wpc[w] \in {"unstarted", "exited"}
            /\ lock # W(w) /\ w \notin waiters

\* queue_destroy is about to free a queued node after both workers of a
\* full pool have exited
C19_Witness ==
    /\ mpc = "d_loop" /\ front # NULL
    /\ \A w \in Workers : handle[w] = "valid" /\ wpc[w] = "exited"

\* a thread_pool_shutdown call has returned and none is in progress
AfterShutdown == mpc = "returned" /\ calls >= 1

\* what a thread_pool_shutdown call made after one has returned does: it
\* returns at line 42, and no step taken from then on writes a pool field,
\* wakes or joins a thread or destroys the queue again
SecondShutdownInert ==
    /\ mpc' = "returned"
    /\ UNCHANGED <<pool, sync, waiters, discarded, mi, wpc, task>>
    /\ calls' # calls => UNCHANGED <<queue, workv, prodv>>

\* C20 as stated: after a thread_pool_shutdown call has returned, threads is
\* NULL and num_threads is 0, and a further call returns at once and changes
\* nothing.
C20_DoubleShutdown ==
    [][ AfterShutdown =>
            threads = "NULL" /\ num_threads = 0 /\ SecondShutdownInert ]_vars

\* C20, amended: after a thread_pool_shutdown call has returned, threads is
\* NULL, and a further call returns at once and changes nothing; num_threads
\* is 0 when the returned call ran lines 45-63, and is still the requested
\* count when it returned at line 42 on a pool whose array allocation failed.
C20_DoubleShutdownThreadsNull ==
    [][ AfterShutdown =>
            /\ threads = "NULL"
            /\ IF AllocFailed THEN num_threads >= 1 ELSE num_threads = 0
            /\ ShutdownReturned \/ AllocFailed
            /\ SecondShutdownInert ]_vars

\* a second call has returned on a pool the first call destroyed
C20_Witness == ShutdownReturned /\ calls = 2 /\ (\E w \in Workers : wpc[w] = "exited")

\* queue_push has finished linking node n (lines 145-151 are complete)
Pushed(n) ==
    /\ n \in Range(pushOrder)
    /\ \A p \in Producers : node[p] = n => ppc[p] \in {"p_signal", "p_unlock"}

\* node n is linked in the list that hangs off q->front
InQueue(n) == n \in Range(Linked)

\* the workers whose task pointer is node n (lines 94-100)
HeldBy(n) == {w \in Workers : task[w] = n}

\* the body of node n has returned and the node was freed at line 100
Finished(n) == ExecCount(n) = 1 /\ HeldBy(n) = {}

\* the number of places node n is in
Places(n) ==
    (IF InQueue(n) THEN 1 ELSE 0) + Cardinality(HeldBy(n))
      + (IF Finished(n) THEN 1 ELSE 0) + (IF n \in discarded THEN 1 ELSE 0)

\* C21 as stated: task conservation.  At every moment each pushed node is in
\* exactly one place: linked in the queue, held by exactly one worker,
\* finished, or discarded by queue_destroy.
C21_Conservation ==
    \A n \in Nodes : Pushed(n) => Places(n) = 1

\* C21, amended: each pushed node is in exactly one place, and a node held
\* by a worker is at a statement between the pop and the free, provided no
\* queue_push critical section has overlapped queue_destroy or was entered
\* after it.
C21_ConservationNoOverlap ==
    (~overlap /\ ~lateLock) =>
        \A n \in Nodes :
            /\ Pushed(n) => Places(n) = 1
            /\ \A w \in HeldBy(n) :
                  /\ Pushed(n)
                  /\ wpc[w] \in {"w_pop2", "w_unlock", "w_run", "w_body"}

\* shutdown has returned with one node finished and another discarded
C21_Witness ==
    /\ ShutdownReturned /\ ~overlap /\ ~lateLock
    /\ \E n, m \in Nodes :
          /\ Pushed(n) /\ Pushed(m)
          /\ Finished(n) /\ m \in discarded

====
